---- MODULE Spec2Model ----
(***************************************************************************)
(* Model of the document pipeline of InsightExtractor: the upload,         *)
(* analyze and download handlers of server/routes.ts, the local uploads    *)
(* directory, the object store and the document repository.                *)
(*                                                                         *)
(* Every handler is an async function: it runs from one await to the next  *)
(* without interruption, and other requests run while it waits.  Each      *)
(* action below is one such uninterrupted segment of a handler.            *)
(*                                                                         *)
(* Spec is three requests of any kind on PDFs that carry metadata, with    *)
(* every outcome of the file system, the object store, the repository,     *)
(* pdf-parse and the model.  SpecOob adds the removal of objects by        *)
(* others.  SpecAny is one Document and its analyses, with every kind of   *)
(* uploaded file, of PDF metadata and of answer of the model.              *)
(***************************************************************************)
EXTENDS Integers, Sequences, FiniteSets, TLC

(* ---------- bounds of the model ---------- *)
MaxCalls == 3
MaxClock == 1

Calls == 1..MaxCalls
Users == {"u1", "u2"}
(* the documents of one owner; requests come from the owner and from a stranger *)
Uploaders == {"u1"}
Names == {"a.pdf"}

(* ---------- values ---------- *)
NoPath == <<"none", 0, "">>
NoKey == <<"none", 0, "">>

(* null and undefined, for a text; in a number field (summary, insights, publishedAt)
   null is 0 *)
Null == "null"

(* a variant that takes the first value also when it is empty *)
Or_First(a, b) == a

(* a || b *)
Or(a, b) == IF a \notin {Null, ""} THEN a ELSE b

(* the Dates of the model are 1..Len(ISO); ISO[d] is what Date d prints as *)
ISO == <<"2020-01-01T00:00:00.000Z", "2021-01-01T00:00:00.000Z">>

toISOString(date) == ISO[date]

(* date.getTime() of an Invalid Date *)
NaN == -1

(* new Date(string) *)
NewDate(string) ==
    IF \E d \in 1..Len(ISO) : ISO[d] = string
    THEN CHOOSE d \in 1..Len(ISO) : ISO[d] = string
    ELSE NaN

(* !isNaN(date.getTime()) *)
IsValidDate(date) == date # NaN

NoDoc == [id |-> 0, userId |-> "", title |-> Null, authors |-> Null, publishedAt |-> 0,
          filePath |-> NoPath, originalFileName |-> "",
          objectStoragePath |-> NoKey, summary |-> 0, insights |-> 0]

VARIABLES now, files, docs, objects, extractions, calls

vars == <<now, files, docs, objects, extractions, calls>>

(* ---------- the uploads directory (fs) ---------- *)
existsSync(f, p) == p \in DOMAIN f

WriteFile(f, p, bytes) == [q \in (DOMAIN f) \cup {p} |-> IF q = p THEN bytes ELSE f[q]]

unlinkSync(f, p) == [q \in (DOMAIN f) \ {p} |-> f[q]]

renameSync(f, from, to) == unlinkSync(WriteFile(f, to, f[from]), from)

(* multer's dest: a random file name per request *)
MulterPath(seq) == <<"multer", seq, "">>

(* `${baseName}-${timestamp}${ext}` in uploadsDir *)
generateFileName(originalName, timestamp) == <<"staged", timestamp, originalName>>

(* `temp-${Date.now()}-${originalFileName}` in uploads *)
TempFilePath(timestamp, originalFileName) == <<"temp", timestamp, originalFileName>>

(* ---------- the object store ---------- *)
(* /bucket/documents/<documentId>/<fileName> *)
ObjectPath(documentId, fileName) == <<"documents", documentId, fileName>>

(* objects are addressed by (documentId, fileName) *)
ObjectKey(documentId, fileName) == <<documentId, fileName>>

(* the put: the object is written or replaced *)
uploadDocumentFile(o, documentId, fileName, bytes) ==
    [k \in (DOMAIN o) \cup {ObjectKey(documentId, fileName)} |->
        IF k = ObjectKey(documentId, fileName) THEN bytes ELSE o[k]]

(* ---------- the repository ---------- *)
(* documents are numbered in the order they are created *)
createDocument(d, userId, title, authors, publishedAt, filePath, originalFileName) ==
    Append(d, [id |-> Len(d) + 1, userId |-> userId, title |-> title,
               authors |-> authors, publishedAt |-> publishedAt, filePath |-> filePath,
               originalFileName |-> originalFileName, objectStoragePath |-> NoKey,
               summary |-> 0, insights |-> 0])

getDocument(d, id) == IF id \in 1..Len(d) THEN d[id] ELSE NoDoc

(* a variant that loses the update: the file would be unlinked with no
   objectStoragePath recorded *)
SetObjectStoragePath_Skip(d, id, objectPath) == d

(* a variant that also nulls filePath *)
SetObjectStoragePath_ClearLocal(d, id, objectPath) ==
    [d EXCEPT ![id].objectStoragePath = objectPath, ![id].filePath = NoPath]

(* storage.updateDocument(document.id, {objectStoragePath: objectPath}) *)
SetObjectStoragePath(d, id, objectPath) ==
    [d EXCEPT ![id].objectStoragePath = objectPath]

(* ---------- requests ---------- *)
(* requests are numbered in the order they reach their handler *)
Arrives(c) ==
    /\ calls[c].op = "idle"
    /\ IF c = 1 THEN TRUE ELSE calls[c - 1].op # "idle"

(* the ids a request can name: those of the documents, and one of no document *)
RequestIds == 1..(Len(docs) + 1)

(* what analyzeDocument returns, before any call has returned *)
NoAnalysis == [summary |-> 0, insights |-> 0,
               metadata |-> [title |-> Null, authors |-> Null, publishedAt |-> Null]]

(* the JSON object of the model's answer, before it has answered *)
NoResult == [summary |-> 0, insights |-> 0,
             metadata |-> [title |-> Null, authors |-> Null, publishedAt |-> Null]]

(* what pdf-parse returns, before it has returned *)
NoData == [Title |-> Null, Author |-> Null, CreationDate |-> Null,
           textTitle |-> Null, textAuthors |-> Null]

(* no file part in the request *)
NoFile == [mimetype |-> "", size |-> 0]

Idle == [op |-> "idle", pc |-> "idle", user |-> "", name |-> "", seq |-> 0,
         file |-> NoFile, data |-> NoData, result |-> NoResult, analysis |-> NoAnalysis, after |-> {}, failure |-> "",
         tmp |-> NoPath, finalPath |-> NoPath, docId |-> 0, document |-> NoDoc,
         tempFilePath |-> NoPath, buf |-> 0, objectPath |-> NoKey,
         get |-> "", put |-> "", owner |-> "", created |-> 0, promoted |-> FALSE,
         status |-> 0, body |-> ""]

(* the response is sent and the handler's locals go out of scope; the record keeps
   what the request was and what it did *)
Respond(r, status, body) ==
    [Idle EXCEPT !.op = r.op, !.pc = "done", !.user = r.user, !.seq = r.seq,
                 !.docId = r.docId, !.finalPath = r.finalPath,
                 !.tempFilePath = r.tempFilePath, !.get = r.get,
                 !.put = r.put, !.owner = r.owner, !.objectPath = r.objectPath,
                 !.created = r.created, !.promoted = r.promoted,
                 !.file = r.file, !.data = r.data, !.analysis = r.analysis, !.after = r.after,
                 !.failure = r.failure,
                 !.buf = IF r.op = "download" THEN r.buf ELSE 0,
                 !.document = IF r.op = "upload" THEN r.document ELSE NoDoc,
                 !.status = status, !.body = body]

(* a variant in which a failed promotion is answered like the outer catch *)
PromotionFailedStatus_Rethrow == 500

(* catch (objectStorageError): res.status(201).json(document) *)
PromotionFailedStatus == 201

Init ==
    /\ now = 0
    /\ files = <<>>
    /\ docs = <<>>
    /\ objects = <<>>
    /\ extractions = <<>>
    /\ calls = [c \in Calls |-> Idle]

(* a name was generated in the current millisecond *)
StampUsed(t) ==
    \/ \E p \in DOMAIN files : p[2] = t /\ p[1] # "multer"
    \/ \E i \in 1..Len(docs) : docs[i].filePath[2] = t
    \/ \E c \in Calls : calls[c].finalPath[2] = t /\ calls[c].finalPath # NoPath
    \/ \E c \in Calls : calls[c].tempFilePath[2] = t /\ calls[c].tempFilePath # NoPath

(* Date.now() advances; only the milliseconds in which a name is generated are counted *)
Tick ==
    /\ now < MaxClock
    /\ StampUsed(now)
    /\ now' = now + 1
    /\ UNCHANGED <<files, docs, objects, extractions, calls>>

(* ---------- POST /api/documents/upload ---------- *)

(* limits: { fileSize: 10 * 1024 * 1024 } *)
fileSize == 10 * 1024 * 1024

(* a variant that takes every file *)
fileFilter_Any(file) == TRUE

(* fileFilter: file.mimetype === 'application/pdf' *)
fileFilter(file) == file.mimetype = "application/pdf"

(* the files a request can carry: a PDF of the largest size allowed *)
PdfFiles == {[mimetype |-> "application/pdf", size |-> fileSize]}

(* and a PDF one byte larger, a text file, and no file part at all *)
AnyFiles ==
    PdfFiles \cup {[mimetype |-> "application/pdf", size |-> fileSize + 1],
                   [mimetype |-> "text/plain", size |-> 1], NoFile}

(* multer removes the file it was writing when the upload fails *)
RemoveUploadedFile(f, p) == unlinkSync(f, p)

(* upload.single('pdf'): multer filters the file and writes it under dest, up to
   the size limit; its error goes to the error handler, not to the route; the
   route answers 400 when there is no file *)
UploadStart(c, u, n, file) ==
    LET r == [Idle EXCEPT !.op = "upload", !.user = u, !.name = n, !.seq = c,
                          !.file = file]
    IN  /\ Arrives(c)
        /\ IF file = NoFile
           THEN /\ calls' = [calls EXCEPT ![c] = Respond(r, 400, "No PDF file uploaded")]
                /\ UNCHANGED files
           ELSE IF ~fileFilter(file)
           THEN /\ calls' = [calls EXCEPT ![c] =
                                Respond(r, 500, "Only PDF files are allowed")]
                /\ UNCHANGED files
           ELSE IF file.size > fileSize
           THEN /\ calls' = [calls EXCEPT ![c] = Respond(r, 500, "File too large")]
                /\ files' = RemoveUploadedFile(WriteFile(files, MulterPath(c), c),
                                               MulterPath(c))
           ELSE /\ calls' = [calls EXCEPT ![c] = [r EXCEPT !.pc = "handler",
                                                           !.tmp = MulterPath(c)]]
                /\ files' = WriteFile(files, MulterPath(c), c)
        /\ UNCHANGED <<now, docs, objects, extractions>>

(* the catch of the outer try: deletes req.file.path if it exists, answers 500 *)
UploadFailed(f, r) ==
    /\ files' = IF existsSync(f, r.tmp) THEN unlinkSync(f, r.tmp) ELSE f
    /\ UNCHANGED <<now, docs, objects, extractions>>

(* generateFileName, renameSync, and the readFileSync of extractPDFContent *)
UploadStage(c, renameOk) ==
    LET r == calls[c]
        finalPath == generateFileName(r.name, now)
    IN  /\ r.op = "upload" /\ r.pc = "handler"
        /\ IF renameOk
           THEN /\ files' = renameSync(files, r.tmp, finalPath)
                /\ calls' = [calls EXCEPT ![c] = [r EXCEPT !.pc = "extracting",
                                !.finalPath = finalPath, !.buf = files[r.tmp]]]
                /\ UNCHANGED <<now, docs, objects, extractions>>
           ELSE /\ calls' = [calls EXCEPT ![c] = Respond(r, 500, "Upload failed")]
                /\ UploadFailed(files, r)

(* what pdf-parse can find in a file: the info dictionary, and the title and
   authors the heuristics read from the first lines of the text *)
PdfWithInfo == [Title |-> "T-info", Author |-> "A-info", CreationDate |-> ISO[1],
                textTitle |-> "T-text", textAuthors |-> Null]

PdfWithoutInfo == [Title |-> Null, Author |-> Null, CreationDate |-> Null,
                   textTitle |-> Null, textAuthors |-> Null]

PdfWithPdfDate == [Title |-> "", Author |-> Null, CreationDate |-> "D:20240101120000Z",
                   textTitle |-> "T-text", textAuthors |-> "A-text"]

Pdfs == {PdfWithInfo}

AnyPdfs == {PdfWithInfo, PdfWithoutInfo, PdfWithPdfDate}

(* info.Title || extractTitleFromText(text), info.Author || ..., and the
   CreationDate when it parses to a valid Date; an undefined publishedAt is 0 *)
extractPDFContent(data) ==
    [title |-> Or(Or(data.Title, data.textTitle), Null),
     authors |-> Or(Or(data.Author, data.textAuthors), Null),
     publishedAt |-> IF /\ data.CreationDate \notin {Null, ""}
                        /\ IsValidDate(NewDate(data.CreationDate))
                     THEN NewDate(data.CreationDate)
                     ELSE 0]

(* pdfData.publishedAt && !isNaN(pdfData.publishedAt.getTime()) *)
validPublishedAt(pdfData) ==
    IF pdfData.publishedAt # 0 /\ IsValidDate(pdfData.publishedAt)
    THEN pdfData.publishedAt
    ELSE 0

(* pdf-parse answers, then storage.createDocument answers *)
UploadCreated(c, res, data) ==
    LET r == calls[c]
        pdfData == extractPDFContent(data)
        d == createDocument(docs, r.user, pdfData.title, pdfData.authors,
                            validPublishedAt(pdfData), r.finalPath, r.name)
    IN  /\ r.op = "upload" /\ r.pc = "extracting"
        /\ IF res = "ok"
           THEN /\ docs' = d
                /\ calls' = [calls EXCEPT ![c] = [r EXCEPT !.pc = "promote",
                                !.data = data,
                                !.docId = Len(d), !.document = d[Len(d)],
                                !.created = r.created + 1]]
                /\ UNCHANGED <<now, files, objects, extractions>>
           ELSE /\ calls' = [calls EXCEPT ![c] = Respond(r, 500,
                                IF res = "extractFailed"
                                THEN "Failed to extract PDF content" ELSE "Upload failed")]
                /\ UploadFailed(files, r)

(* fs.readFileSync(finalPath), then uploadDocumentFile is called *)
UploadRead(c) ==
    LET r == calls[c]
    IN  /\ r.op = "upload" /\ r.pc = "promote"
        /\ calls' = [calls EXCEPT ![c] =
              IF existsSync(files, r.finalPath)
              THEN [r EXCEPT !.pc = "putting", !.buf = files[r.finalPath]]
              ELSE Respond(r, PromotionFailedStatus, "document")]
        /\ UNCHANGED <<now, files, docs, objects, extractions>>

(* uploadDocumentFile answers *)
UploadPut(c, ok) ==
    LET r == calls[c]
    IN  /\ r.op = "upload" /\ r.pc = "putting"
        /\ IF ok
           THEN /\ objects' = uploadDocumentFile(objects, r.docId, r.name, r.buf)
                /\ calls' = [calls EXCEPT ![c] = [r EXCEPT !.pc = "updating",
                                !.put = "ok", !.objectPath = ObjectPath(r.docId, r.name)]]
           ELSE /\ calls' = [calls EXCEPT ![c] =
                    Respond([r EXCEPT !.put = "failed"], PromotionFailedStatus, "document")]
                /\ UNCHANGED objects
        /\ UNCHANGED <<now, files, docs, extractions>>

(* storage.updateDocument(document.id, {objectStoragePath}) answers *)
UploadUpdated(c, ok) ==
    LET r == calls[c]
    IN  /\ r.op = "upload" /\ r.pc = "updating"
        /\ IF ok
           THEN /\ docs' = SetObjectStoragePath(docs, r.docId, r.objectPath)
                /\ calls' = [calls EXCEPT ![c] = [r EXCEPT !.pc = "unlinking"]]
           ELSE /\ calls' = [calls EXCEPT ![c] =
                                Respond(r, PromotionFailedStatus, "document")]
                /\ UNCHANGED docs
        /\ UNCHANGED <<now, files, objects, extractions>>

(* fs.unlinkSync(finalPath); res.status(201).json(document) *)
UploadUnlink(c) ==
    LET r == calls[c]
    IN  /\ r.op = "upload" /\ r.pc = "unlinking"
        /\ IF existsSync(files, r.finalPath)
           THEN /\ files' = unlinkSync(files, r.finalPath)
                /\ calls' = [calls EXCEPT ![c] =
                                Respond([r EXCEPT !.promoted = TRUE], 201, "document")]
           ELSE /\ calls' = [calls EXCEPT ![c] =
                                Respond(r, PromotionFailedStatus, "document")]
                /\ UNCHANGED files
        /\ UNCHANGED <<now, docs, objects, extractions>>

(* Upload with the request's file drawn from F and the file's content from P *)
Upload(c, F, P) ==
    \/ \E u \in Uploaders, n \in Names, file \in F : UploadStart(c, u, n, file)
    \/ \E ok \in BOOLEAN : UploadStage(c, ok)
    \/ \E res \in {"ok", "extractFailed", "createFailed"}, data \in P :
            UploadCreated(c, res, data)
    \/ UploadRead(c)
    \/ \E ok \in BOOLEAN : UploadPut(c, ok)
    \/ \E ok \in BOOLEAN : UploadUpdated(c, ok)
    \/ UploadUnlink(c)

(* ---------- POST /api/documents/:id/analyze ---------- *)

(* a variant without the ownership check *)
IsOwner_Anyone(document, u) == TRUE

(* document.userId === req.user.id *)
IsOwner(document, u) == document.userId = u

(* the Analyze calls of document id that have answered success *)
Succeeded(id) ==
    {k \in Calls : /\ calls[k].op = "analyze" /\ calls[k].docId = id
                   /\ calls[k].pc = "done" /\ calls[k].status = 200}

(* storage.getDocument(req.params.id) answers; the existence and ownership checks;
   after: the successful Analyze calls of the document that answered before *)
AnalyzeStart(c, u, id) ==
    /\ Arrives(c)
    /\ calls' = [calls EXCEPT ![c] =
          LET r == [Idle EXCEPT !.op = "analyze", !.user = u, !.docId = id,
                                !.seq = c]
          IN  IF getDocument(docs, id) = NoDoc
              THEN Respond(r, 404, "Document not found")
              ELSE IF ~IsOwner(getDocument(docs, id), u)
              THEN Respond([r EXCEPT !.owner = getDocument(docs, id).userId],
                           403, "Access denied")
              ELSE [r EXCEPT !.pc = "resolve", !.owner = getDocument(docs, id).userId,
                             !.document = getDocument(docs, id),
                             !.after = Succeeded(id)]]
    /\ UNCHANGED <<now, files, docs, objects, extractions>>

(* a variant without the finally *)
Cleanup_None(f, r) == f

(* the finally of the second try: deletes tempFilePath if it is set and exists *)
Cleanup(f, r) ==
    IF r.tempFilePath # NoPath /\ existsSync(f, r.tempFilePath)
    THEN unlinkSync(f, r.tempFilePath)
    ELSE f

(* a variant that never reads the local file *)
UsesLocalFile_Never(f, document) == FALSE

(* fs.existsSync(document.filePath) *)
UsesLocalFile(f, document) == existsSync(f, document.filePath)

(* the storage resolution: the local file, else the object store, else an error *)
AnalyzeResolve(c) ==
    LET r == calls[c]
        document == r.document
    IN  /\ r.op = "analyze" /\ r.pc = "resolve"
        /\ calls' = [calls EXCEPT ![c] =
              IF UsesLocalFile(files, document)
              THEN [r EXCEPT !.pc = "extracting", !.buf = files[document.filePath]]
              ELSE IF document.objectStoragePath # NoKey
              THEN [r EXCEPT !.pc = "getting",
                       !.tempFilePath = TempFilePath(now, document.originalFileName)]
              ELSE Respond([r EXCEPT !.failure = "ContentUnavailable"], 500,
                           "Unable to access PDF file for analysis")]
        /\ UNCHANGED <<now, files, docs, objects, extractions>>

(* pathParts[pathParts.length - 2], pathParts[pathParts.length - 1] *)
PathParts(objectStoragePath) ==
    ObjectKey(objectStoragePath[Len(objectStoragePath) - 1],
              objectStoragePath[Len(objectStoragePath)])

(* what getDocumentFile can answer for a key *)
GetResults(o, k) == (IF k \in DOMAIN o THEN {"ok"} ELSE {"NotFound"}) \cup {"error"}

(* getDocumentFile answers; on success fs.createWriteStream(tempFilePath) opens the file *)
AnalyzeGot(c, res) ==
    LET r == calls[c]
        k == PathParts(r.document.objectStoragePath)
    IN  /\ r.op = "analyze" /\ r.pc = "getting"
        /\ res \in GetResults(objects, k)
        /\ IF res = "ok"
           THEN /\ files' = WriteFile(files, r.tempFilePath, 0)
                /\ calls' = [calls EXCEPT ![c] = [r EXCEPT !.pc = "streaming",
                                !.buf = objects[k], !.get = res]]
           ELSE /\ calls' = [calls EXCEPT ![c] =
                    Respond([r EXCEPT !.get = res, !.failure = "RemoteReadFailed"], 500,
                            "Unable to access PDF file for analysis")]
                /\ UNCHANGED files
        /\ UNCHANGED <<now, docs, objects, extractions>>

(* the pipe finishes or fails; on finish extractPDFContent reads tempFilePath *)
AnalyzeStreamed(c, ok) ==
    LET r == calls[c]
    IN  /\ r.op = "analyze" /\ r.pc = "streaming"
        /\ IF ok /\ existsSync(files, r.tempFilePath)
           THEN /\ files' = WriteFile(files, r.tempFilePath, r.buf)
                /\ calls' = [calls EXCEPT ![c] = [r EXCEPT !.pc = "extracting"]]
           ELSE /\ calls' = [calls EXCEPT ![c] =
                    Respond([r EXCEPT !.failure = "RemoteReadFailed"], 500,
                            "Unable to access PDF file for analysis")]
                /\ UNCHANGED files
        /\ UNCHANGED <<now, docs, objects, extractions>>

(* "No summary available" *)
NoSummaryAvailable == -1

(* [], the empty list of insights *)
EmptyList == -2

(* Array.isArray(insights): the list of insights of call n is n *)
IsArray(insights) == insights > 0

(* the JSON objects the model can answer call seq with: every field given *)
Results(seq) ==
    {[summary |-> seq, insights |-> seq,
      metadata |-> [title |-> "T-ai", authors |-> "A-ai", publishedAt |-> ISO[2]]]}

(* and: {} ; a title with no authors and a date of month 13 *)
AnyResults(seq) ==
    Results(seq) \cup
    {[summary |-> 0, insights |-> 0,
      metadata |-> [title |-> Null, authors |-> "", publishedAt |-> ""]],
     [summary |-> seq, insights |-> seq,
      metadata |-> [title |-> "T-ai", authors |-> "", publishedAt |-> "2021-13-45"]]}

(* a variant that returns before the model has answered *)
analyzeDocument_Early(result, existingMetadata) == NoAnalysis

(* a variant that returns the insights as they were parsed *)
analyzeDocument_Raw(result, existingMetadata) ==
    [summary |-> IF result.summary # 0 THEN result.summary ELSE NoSummaryAvailable,
     insights |-> result.insights,
     metadata |->
        [title |-> Or(result.metadata.title, existingMetadata.title),
         authors |-> Or(result.metadata.authors, existingMetadata.authors),
         publishedAt |-> Or(result.metadata.publishedAt,
                            IF existingMetadata.publishedAt # 0
                            THEN toISOString(existingMetadata.publishedAt)
                            ELSE Null)]]

(* the object analyzeDocument returns for a parsed result, whatever its fields *)
analyzeDocument(result, existingMetadata) ==
    [summary |-> IF result.summary # 0 THEN result.summary ELSE NoSummaryAvailable,
     insights |-> IF IsArray(result.insights) THEN result.insights ELSE EmptyList,
     metadata |->
        [title |-> Or(result.metadata.title, existingMetadata.title),
         authors |-> Or(result.metadata.authors, existingMetadata.authors),
         publishedAt |-> Or(result.metadata.publishedAt,
                            IF existingMetadata.publishedAt # 0
                            THEN toISOString(existingMetadata.publishedAt)
                            ELSE Null)]]

(* pdf-parse answers (a failure is rethrown by the catch of the first try, outside
   the try/finally), then the model answers and analyzeDocument returns, or throws
   when the request failed or the content is not JSON ("analysisFailed") *)
AnalyzeAnalyzed(c, res, result) ==
    LET r == calls[c]
        thrown == res = "analysisFailed"
    IN  /\ r.op = "analyze" /\ r.pc = "extracting"
        /\ calls' = [calls EXCEPT ![c] =
              IF res = "extractFailed"
              THEN Respond([r EXCEPT !.failure = "ExtractionFailed"], 500,
                           "Unable to access PDF file for analysis")
              ELSE IF thrown
              THEN Respond([r EXCEPT !.failure = "AnalysisServiceFailed"], 500,
                           "Failed to analyze document with AI")
              ELSE [r EXCEPT !.pc = "updating", !.result = result,
                             !.analysis = analyzeDocument(result,
                                 [title |-> r.document.title,
                                  authors |-> r.document.authors,
                                  publishedAt |-> r.document.publishedAt])]]
        /\ files' = IF res # "extractFailed" /\ thrown THEN Cleanup(files, r) ELSE files
        /\ UNCHANGED <<now, docs, objects, extractions>>

(* a variant that stores the parsed date without testing it *)
validAnalysisDate_Unchecked(analysis, document) ==
    IF analysis.metadata.publishedAt \notin {Null, ""}
    THEN NewDate(analysis.metadata.publishedAt)
    ELSE document.publishedAt

(* the date of the analysis when it parses to a valid Date, else
   document.publishedAt || undefined; undefined is 0 *)
validAnalysisDate(analysis, document) ==
    IF /\ analysis.metadata.publishedAt \notin {Null, ""}
       /\ IsValidDate(NewDate(analysis.metadata.publishedAt))
    THEN NewDate(analysis.metadata.publishedAt)
    ELSE document.publishedAt

(* the repository's update of one column: a value given as undefined (0) is not
   written *)
SetColumn(old, value) == IF value = 0 THEN old ELSE value

(* a variant that keeps a summary and insights once they are set *)
updateDocument_KeepFirst(d, id, updates) ==
    [d EXCEPT ![id].title = updates.title,
              ![id].authors = updates.authors,
              ![id].publishedAt = SetColumn(@, updates.publishedAt),
              ![id].summary = IF @ = 0 THEN updates.summary ELSE @,
              ![id].insights = IF @ = 0 THEN updates.insights ELSE @]

(* storage.updateDocument(document.id, {title, authors, publishedAt, summary,
   insights}): title and authors are given as a text or as null *)
updateDocument(d, id, updates) ==
    [d EXCEPT ![id].title = updates.title,
              ![id].authors = updates.authors,
              ![id].publishedAt = SetColumn(@, updates.publishedAt),
              ![id].summary = updates.summary,
              ![id].insights = updates.insights]

(* storage.updateDocument(document.id, {title, authors, publishedAt, summary,
   insights}) answers *)
AnalyzeUpdated(c, ok) ==
    LET r == calls[c]
        document == r.document
        analysis == r.analysis
    IN  /\ r.op = "analyze" /\ r.pc = "updating"
        /\ IF ok
           THEN /\ docs' = updateDocument(docs, document.id,
                            [title |-> Or(analysis.metadata.title, document.title),
                             authors |-> Or(analysis.metadata.authors, document.authors),
                             publishedAt |-> validAnalysisDate(analysis, document),
                             summary |-> analysis.summary,
                             insights |-> analysis.insights])
                /\ calls' = [calls EXCEPT ![c] = [r EXCEPT !.pc = "recording",
                                !.document = docs'[r.docId]]]
                /\ UNCHANGED files
           ELSE /\ calls' = [calls EXCEPT ![c] =
                    Respond([r EXCEPT !.failure = "PersistenceFailed"], 500,
                            "Analysis failed")]
                /\ files' = Cleanup(files, r)
                /\ UNCHANGED docs
        /\ UNCHANGED <<now, objects, extractions>>

(* a variant that writes no record *)
createExtraction_Skip(e, documentId, summary, insights) == e

(* a variant that keeps one Extraction per Document, replacing the one it has *)
createExtraction_Replace(e, documentId, summary, insights) ==
    Append(SelectSeq(e, LAMBDA x : x.documentId # documentId),
           [documentId |-> documentId, summary |-> summary, insights |-> insights])

(* storage.createExtraction({documentId, summary, insights}): a new record *)
createExtraction(e, documentId, summary, insights) ==
    Append(e, [documentId |-> documentId, summary |-> summary, insights |-> insights])

(* storage.createExtraction answers; res.json(updatedDocument) *)
AnalyzeRecorded(c, ok) ==
    LET r == calls[c]
    IN  /\ r.op = "analyze" /\ r.pc = "recording"
        /\ IF ok
           THEN /\ extractions' = createExtraction(extractions, r.document.id,
                                        r.analysis.summary, r.analysis.insights)
                /\ calls' = [calls EXCEPT ![c] = Respond(r, 200, "document")]
           ELSE /\ calls' = [calls EXCEPT ![c] =
                    Respond([r EXCEPT !.failure = "PersistenceFailed"], 500,
                            "Analysis failed")]
                /\ UNCHANGED extractions
        /\ files' = Cleanup(files, r)
        /\ UNCHANGED <<now, docs, objects>>

(* Analyze with the model's answer to call n drawn from R[n] *)
Analyze(c, R) ==
    \/ \E u \in Users, id \in RequestIds : AnalyzeStart(c, u, id)
    \/ AnalyzeResolve(c)
    \/ \E res \in {"ok", "NotFound", "error"} : AnalyzeGot(c, res)
    \/ \E ok \in BOOLEAN : AnalyzeStreamed(c, ok)
    \/ \E res \in {"ok", "extractFailed", "analysisFailed"}, result \in R[calls[c].seq] :
            AnalyzeAnalyzed(c, res, result)
    \/ \E ok \in BOOLEAN : AnalyzeUpdated(c, ok)
    \/ \E ok \in BOOLEAN : AnalyzeRecorded(c, ok)

(* ---------- GET /api/documents/:id/download ---------- *)

(* storage.getDocument(req.params.id) answers; the existence and ownership checks *)
DownloadStart(c, u, id) ==
    /\ Arrives(c)
    /\ calls' = [calls EXCEPT ![c] =
          LET r == [Idle EXCEPT !.op = "download", !.user = u, !.docId = id]
          IN  IF getDocument(docs, id) = NoDoc
              THEN Respond(r, 404, "Document not found")
              ELSE IF ~IsOwner(getDocument(docs, id), u)
              THEN Respond([r EXCEPT !.owner = getDocument(docs, id).userId],
                           403, "Access denied")
              ELSE [r EXCEPT !.pc = "resolve", !.owner = getDocument(docs, id).userId,
                             !.document = getDocument(docs, id)]]
    /\ UNCHANGED <<now, files, docs, objects, extractions>>

(* a variant that goes to the local file at once *)
DownloadTriesRemote_Never(document) == FALSE

(* document.objectStoragePath && document.originalFileName *)
DownloadTriesRemote(document) ==
    document.objectStoragePath # NoKey /\ document.originalFileName # ""

(* a variant that rethrows every error but ObjectNotFoundError *)
DownloadFallsBack_NotFoundOnly(res) == res = "NotFound"

(* the catch around getDocumentFile/downloadObject logs and falls through *)
DownloadFallsBack(res) == res \in {"NotFound", "error"}

(* document.filePath && fs.existsSync(document.filePath): sendFile, else 404 *)
DownloadLocal(f, r) ==
    IF r.document.filePath # NoPath /\ existsSync(f, r.document.filePath)
    THEN Respond([r EXCEPT !.buf = f[r.document.filePath]], 200, "local file")
    ELSE Respond(r, 404, "File not found")

(* the object store is tried first when the document has an object path *)
DownloadResolve(c) ==
    LET r == calls[c]
    IN  /\ r.op = "download" /\ r.pc = "resolve"
        /\ calls' = [calls EXCEPT ![c] =
              IF DownloadTriesRemote(r.document)
              THEN [r EXCEPT !.pc = "getting"]
              ELSE DownloadLocal(files, r)]
        /\ UNCHANGED <<now, files, docs, objects, extractions>>

(* getDocumentFile and downloadObject answer *)
DownloadGot(c, res) ==
    LET r == [calls[c] EXCEPT !.get = res]
        k == ObjectKey(r.document.id, r.document.originalFileName)
    IN  /\ r.op = "download" /\ r.pc = "getting"
        /\ res \in GetResults(objects, k)
        /\ calls' = [calls EXCEPT ![c] =
              IF res = "ok"
              THEN Respond([r EXCEPT !.buf = objects[k]], 200, "object")
              ELSE IF DownloadFallsBack(res)
              THEN DownloadLocal(files, r)
              ELSE Respond(r, 500, "Download failed")]
        /\ UNCHANGED <<now, files, docs, objects, extractions>>

Download(c) ==
    \/ \E u \in Users, id \in RequestIds : DownloadStart(c, u, id)
    \/ DownloadResolve(c)
    \/ \E res \in {"ok", "NotFound", "error"} : DownloadGot(c, res)

(* ---------- the environment ---------- *)

(* an object is removed from the bucket by someone else *)
DeleteObject(k) ==
    /\ k \in DOMAIN objects
    /\ objects' = [q \in (DOMAIN objects) \ {k} |-> objects[q]]
    /\ UNCHANGED <<now, files, docs, extractions, calls>>

Next ==
    \/ Tick
    \/ \E c \in Calls : Upload(c, PdfFiles, Pdfs)
    \/ \E c \in Calls : Analyze(c, [n \in 0..MaxCalls |-> Results(n)])
    \/ \E c \in Calls : Download(c)

Spec == Init /\ [][Next]_vars

(* one Document: the first request uploads it, with any kind of file and PDF
   content, and the others analyze it, with any answer of the model; Download,
   which writes nothing, is left out *)
NextAny ==
    \/ Tick
    \/ Upload(1, AnyFiles, AnyPdfs)
    \/ \E c \in Calls : Analyze(c, [n \in 0..MaxCalls |-> AnyResults(n)])

SpecAny == Init /\ [][NextAny]_vars

NextOob ==
    \/ Next
    \/ \E k \in DOMAIN objects : DeleteObject(k)

SpecOob == Init /\ [][NextOob]_vars

(* ---------- the properties ---------- *)

Done(c, op) == calls[c].op = op /\ calls[c].pc = "done"

(* the request that uploaded document i, and the bytes it sent *)
OriginalBytes(i) == (CHOOSE c \in Calls : calls[c].op = "upload" /\ calls[c].docId = i)

ObjectExists(document) ==
    /\ document.objectStoragePath # NoKey
    /\ PathParts(document.objectStoragePath) \in DOMAIN objects

(* request c answers in this step *)
Answers(c, op) == calls[c].op = op /\ calls[c].pc # "done" /\ calls'[c].pc = "done"

(* C1: when an Analyze call that staged a temporary file from the object store
   answers, whatever the answer, no file is left at its temporary path *)
C1_TempFileAbsentAfterReturn ==
    [][\A c \in Calls :
          Answers(c, "analyze") /\ calls'[c].get = "ok"
              => ~existsSync(files', calls'[c].tempFilePath)]_vars

(* C2: when Upload answers with an error after the file was renamed to its staged
   path, no file exists at that staged path *)
C2_StagedFileDeletedOnUploadError ==
    [][\A c \in Calls :
          Answers(c, "upload") /\ calls'[c].status = 500 /\ calls'[c].finalPath # NoPath
              => ~existsSync(files', calls'[c].finalPath)]_vars

(* C3: every Document has a readable copy of its original bytes in a tier: the
   file at filePath, or the object its objectStoragePath names *)
C3_EveryDocumentReadable ==
    \A i \in 1..Len(docs) :
        \/ /\ existsSync(files, docs[i].filePath)
           /\ files[docs[i].filePath] = OriginalBytes(i)
        \/ /\ ObjectExists(docs[i])
           /\ objects[PathParts(docs[i].objectStoragePath)] = OriginalBytes(i)

(* C4: promotion is ordered: a Document's objectStoragePath is set only once the
   object has been put, and an Upload that has deleted its local file has put the
   object and recorded the objectStoragePath of its Document before *)
C4_PromotionOrdered ==
    /\ \A i \in 1..Len(docs) :
            docs[i].objectStoragePath # NoKey => ObjectExists(docs[i])
    /\ \A c \in Calls :
            calls[c].op = "upload" /\ calls[c].promoted
                => /\ calls[c].put = "ok"
                   /\ docs[calls[c].docId].objectStoragePath = calls[c].objectPath
                   /\ ObjectExists(docs[calls[c].docId])

C4_Witness ==
    \E c \in Calls : Done(c, "upload") /\ calls[c].promoted

(* C5: when the put to the object store fails, Upload answers 201 with the
   Document, the Document has its filePath and no objectStoragePath, and the
   staged file is still there *)
C5_PutFailureKeepsLocal ==
    [][\A c \in Calls :
          Answers(c, "upload") /\ calls'[c].put = "failed"
              => /\ calls'[c].status = 201 /\ calls'[c].body = "document"
                 /\ docs'[calls'[c].docId].filePath # NoPath
                 /\ docs'[calls'[c].docId].objectStoragePath = NoKey
                 /\ existsSync(files', docs'[calls'[c].docId].filePath)]_vars

(* the Upload requests that have created their Document and not answered an error *)
UploadsWithDocument ==
    {c \in Calls : /\ calls[c].op = "upload"
                   /\ \/ calls[c].pc \in {"promote", "putting", "updating", "unlinking"}
                      \/ calls[c].pc = "done" /\ calls[c].status = 201}

(* C6: an Upload that answers success has created exactly one Document, which has
   a filePath or an objectStoragePath; an Upload that answers an error has created
   none: the Documents are exactly those of the Uploads that did not fail *)
C6_OneDocumentPerSuccessfulUpload ==
    /\ Len(docs) = Cardinality(UploadsWithDocument)
    /\ \A c \in Calls :
            Done(c, "upload") =>
                IF calls[c].status = 201
                THEN /\ calls[c].created = 1
                     /\ calls[c].docId \in 1..Len(docs)
                     /\ \/ docs[calls[c].docId].filePath # NoPath
                        \/ docs[calls[c].docId].objectStoragePath # NoKey
                ELSE calls[c].created = 0 /\ calls[c].docId = 0

C6_Witness ==
    /\ \E c \in Calls : Done(c, "upload") /\ calls[c].status = 201
    /\ \E c \in Calls : Done(c, "upload") /\ calls[c].status = 500

(* C7, as the spec states it: after an Upload whose promotion succeeded the
   Document has an objectStoragePath and its filePath is null *)
C7_LocalPathCleared ==
    \A c \in Calls :
        Done(c, "upload") /\ calls[c].promoted
            => /\ docs[calls[c].docId].objectStoragePath # NoKey
               /\ docs[calls[c].docId].filePath = NoPath

(* C7, amended: after an Upload whose promotion succeeded the Document has an
   objectStoragePath and its filePath still names the staged path *)
C7_LocalPathKept ==
    \A c \in Calls :
        Done(c, "upload") /\ calls[c].promoted
            => /\ docs[calls[c].docId].objectStoragePath # NoKey
               /\ docs[calls[c].docId].filePath # NoPath
               /\ docs[calls[c].docId].filePath = calls[c].finalPath

C7_Witness ==
    \E c \in Calls :
        /\ Done(c, "upload") /\ calls[c].promoted
        /\ ~existsSync(files, docs[calls[c].docId].filePath)

(* C8, as the spec states it: Download serves the local file only after the
   object store answered NotFound; another error of the object store is answered
   to the caller as a failure *)
C8_FallbackOnlyOnNotFound ==
    \A c \in Calls :
        Done(c, "download") /\ calls[c].get = "error"
            => calls[c].body # "local file" /\ calls[c].status = 500

(* C8, amended: Download falls back to the local file after NotFound and after any
   other error of the object store alike: it serves the local file if it exists,
   else answers 404, and never answers the object store's error *)
C8_FallbackOnAnyError ==
    [][\A c \in Calls :
          /\ calls[c].op = "download" /\ calls[c].pc = "getting"
          /\ calls'[c].pc = "done" /\ calls'[c].get \in {"NotFound", "error"}
          => IF existsSync(files, calls[c].document.filePath)
             THEN /\ calls'[c].status = 200 /\ calls'[c].body = "local file"
                  /\ calls'[c].buf = files[calls[c].document.filePath]
             ELSE calls'[c].status = 404 /\ calls'[c].body = "File not found"]_vars

C8_Witness ==
    \E c \in Calls :
        Done(c, "download") /\ calls[c].get = "error" /\ calls[c].body = "local file"

(* C9: for a Document of the requester, Download asks the object store first when
   the objectStoragePath is set, and serves the object when it is there, also
   when a local file exists; when the object is NotFound it serves the local file
   if there is one; when neither tier has the file it answers 404 *)
C9_DownloadResolution ==
    [][\A c \in Calls :
          /\ (/\ calls[c].op = "download" /\ calls[c].pc = "resolve"
              /\ calls'[c] # calls[c]
              => IF calls[c].document.objectStoragePath # NoKey
                 THEN calls'[c].pc = "getting"
                 ELSE IF existsSync(files, calls[c].document.filePath)
                 THEN calls'[c].status = 200 /\ calls'[c].body = "local file"
                 ELSE calls'[c].status = 404 /\ calls'[c].body = "File not found")
          /\ (/\ calls[c].op = "download" /\ calls[c].pc = "getting"
              /\ calls'[c] # calls[c]
              => /\ calls'[c].pc = "done"
                 /\ (ObjectKey(calls[c].docId, calls[c].document.originalFileName)
                        \in DOMAIN objects /\ calls'[c].get # "error"
                     => /\ calls'[c].status = 200 /\ calls'[c].body = "object"
                        /\ calls'[c].buf = objects[ObjectKey(calls[c].docId,
                                               calls[c].document.originalFileName)])
                 /\ (calls'[c].get = "NotFound"
                     => IF existsSync(files, calls[c].document.filePath)
                        THEN calls'[c].status = 200 /\ calls'[c].body = "local file"
                        ELSE calls'[c].status = 404 /\ calls'[c].body = "File not found"))
      ]_vars

C9_Witness ==
    /\ \E c \in Calls :
          /\ Done(c, "download") /\ calls[c].get = "ok" /\ calls[c].body = "object"
          /\ existsSync(files, docs[calls[c].docId].filePath)
    /\ \E c \in Calls :
          Done(c, "download") /\ calls[c].get = "NotFound" /\ calls[c].body = "local file"

(* C10: Analyze and Download answer a requester the same for a document of another
   owner as for a document that does not exist *)
C10_SameDenial ==
    \A c1, c2 \in Calls :
        /\ calls[c1].pc = "done" /\ calls[c2].pc = "done"
        /\ calls[c1].op \in {"analyze", "download"} /\ calls[c2].op = calls[c1].op
        /\ calls[c1].user = calls[c2].user
        /\ calls[c1].owner \notin {"", calls[c1].user}
        /\ calls[c2].owner = ""
        => calls[c1].status = calls[c2].status /\ calls[c1].body = calls[c2].body

(* the Extractions of document i, by their position in creation order *)
ExtractionsOf(i) == {j \in 1..Len(extractions) : extractions[j].documentId = i}

LatestExtraction(i) ==
    extractions[CHOOSE j \in ExtractionsOf(i) : \A k \in ExtractionsOf(i) : k <= j]

(* an Analyze of document i has updated the Document and not yet answered *)
Persisting(i) ==
    \E c \in Calls : calls[c].op = "analyze" /\ calls[c].docId = i
                      /\ calls[c].pc = "recording"

(* C11: whenever no Analyze is between its two writes, a Document's summary and
   insights are both null and it has no Extraction, or they are those of its
   most recently created Extraction *)
C11_SummaryIsLatestExtraction ==
    \A i \in 1..Len(docs) :
        ~Persisting(i) =>
            IF ExtractionsOf(i) = {}
            THEN docs[i].summary = 0 /\ docs[i].insights = 0
            ELSE /\ docs[i].summary = LatestExtraction(i).summary
                 /\ docs[i].insights = LatestExtraction(i).insights

(* the Analyze calls of document i that passed the existence and ownership checks *)
AnalyzersOf(i) ==
    {c \in Calls : /\ calls[c].op = "analyze" /\ calls[c].docId = i
                   /\ calls[c].status \notin {403, 404}}

(* c1 and c2 are the two Analyze calls of document i, both answered success, and
   c2 arrived after c1 had answered *)
InSequence(c1, c2, i) ==
    /\ AnalyzersOf(i) = {c1, c2} /\ c1 # c2
    /\ Done(c1, "analyze") /\ calls[c1].status = 200
    /\ Done(c2, "analyze") /\ calls[c2].status = 200
    /\ c1 \in calls[c2].after

(* C12: two successful Analyze calls of one Document, the second started after
   the first answered, leave exactly two Extractions of it, the first call's and
   then the second call's, and the Document has the second call's summary and
   insights *)
C12_SecondAnalyzeOverwrites ==
    \A i \in 1..Len(docs) : \A c1, c2 \in Calls :
        InSequence(c1, c2, i)
            => /\ Cardinality(ExtractionsOf(i)) = 2
               /\ \E j1, j2 \in ExtractionsOf(i) :
                     /\ j1 < j2
                     /\ extractions[j1].summary = calls[c1].analysis.summary
                     /\ extractions[j1].insights = calls[c1].analysis.insights
                     /\ extractions[j2].summary = calls[c2].analysis.summary
                     /\ extractions[j2].insights = calls[c2].analysis.insights
               /\ docs[i].summary = calls[c2].analysis.summary
               /\ docs[i].insights = calls[c2].analysis.insights
               /\ calls[c1].analysis.summary # calls[c2].analysis.summary

C12_Witness ==
    \E i \in 1..Len(docs) : \E c1, c2 \in Calls : InSequence(c1, c2, i)

(* the Analyze call c of a Document does one of its two writes in this step *)
Updates(c) == calls[c].op = "analyze" /\ calls[c].pc = "updating"
              /\ calls'[c].pc = "recording"

Records(c) == calls[c].op = "analyze" /\ calls[c].pc = "recording"
              /\ calls'[c].status = 200

(* C13: whatever other Analyze calls are in flight, a call that succeeds appends
   its own Extraction and changes no other, so two calls that succeed leave two;
   and the Document's summary and insights are written by the Document update of
   an Analyze call and by nothing else, so they are those of the call that
   updated last *)
C13_OwnExtractionLastUpdateWins ==
    [][/\ \A c \in Calls :
             Records(c)
                 => /\ Len(extractions') = Len(extractions) + 1
                    /\ SubSeq(extractions', 1, Len(extractions)) = extractions
                    /\ extractions'[Len(extractions')] =
                          [documentId |-> calls[c].docId,
                           summary |-> calls[c].analysis.summary,
                           insights |-> calls[c].analysis.insights]
       /\ (\A c \in Calls : ~Records(c)) => extractions' = extractions
       /\ \A c \in Calls :
             Updates(c)
                 => /\ docs'[calls[c].docId].summary = calls[c].analysis.summary
                    /\ docs'[calls[c].docId].insights = calls[c].analysis.insights
       /\ \A i \in 1..Len(docs) :
             (\A c \in Calls : ~(Updates(c) /\ calls[c].docId = i))
                 => /\ docs'[i].summary = docs[i].summary
                    /\ docs'[i].insights = docs[i].insights
      ]_vars

(* two calls ran concurrently and both succeeded: the Document has the output of
   the call whose Extraction is the older of the two *)
C13_Witness ==
    \E i \in 1..Len(docs) : \E c1, c2 \in Calls :
        /\ c1 # c2 /\ AnalyzersOf(i) = {c1, c2}
        /\ Done(c1, "analyze") /\ calls[c1].status = 200
        /\ Done(c2, "analyze") /\ calls[c2].status = 200
        /\ Cardinality(ExtractionsOf(i)) = 2
        /\ LatestExtraction(i).summary = calls[c1].analysis.summary
        /\ docs[i].summary = calls[c2].analysis.summary

(* a string that is absent, empty, or does not parse to a valid Date *)
NoValidDate(string) == string \in {Null, ""} \/ ~IsValidDate(NewDate(string))

(* the Upload call c creates its Document in this step *)
Creates(c) == calls[c].op = "upload" /\ calls[c].created = 0 /\ calls'[c].created = 1

(* C14: a Document's publishedAt is always null or a valid Date.  Upload stores
   the CreationDate of the PDF when it parses to a valid Date and null when it does
   not.  The update of Analyze stores the date of the model's answer when it parses
   to a valid Date; when the answer has no date or an invalid one, the update
   stores the publishedAt the call read from the Document, and writes nothing when
   that was null: a publishedAt that is set is never replaced by null *)
C14_PublishedAtNullOrValid ==
    /\ [](\A i \in 1..Len(docs) : docs[i].publishedAt \in 0..Len(ISO))
    /\ [][/\ \A c \in Calls :
               Creates(c) =>
                   docs'[calls'[c].docId].publishedAt =
                       IF NoValidDate(calls'[c].data.CreationDate) THEN 0
                       ELSE NewDate(calls'[c].data.CreationDate)
         /\ \A c \in Calls :
               Updates(c) =>
                   LET i == calls[c].docId
                       refined == calls[c].result.metadata.publishedAt
                   IN  IF NoValidDate(refined)
                       THEN /\ docs'[i].publishedAt =
                                  IF calls[c].document.publishedAt # 0
                                  THEN calls[c].document.publishedAt
                                  ELSE docs[i].publishedAt
                            /\ docs[i].publishedAt # 0 => docs'[i].publishedAt # 0
                       ELSE docs'[i].publishedAt = NewDate(refined)
        ]_vars

(* two Analyze calls of a Document uploaded with a valid CreationDate have
   succeeded: one was answered a valid date, and then one an invalid date, which
   left the date of the first *)
C14_Witness ==
    \E c, k \in Calls :
        /\ Done(c, "upload") /\ calls[c].created = 1
        /\ calls[c].data.CreationDate = ISO[1]
        /\ Done(k, "analyze") /\ calls[k].status = 200
        /\ calls[k].docId = calls[c].docId
        /\ calls[k].analysis.metadata.publishedAt = "2021-13-45"
        /\ calls[k].after # {}
        /\ docs[calls[c].docId].publishedAt = 2

(* the value Analyze stores for a text field: the model's when it is not empty,
   else the one the call read from the Document *)
Merged(refined, read) == IF refined \notin {Null, ""} THEN refined ELSE read

(* C15: an Analyze call reads the Document as it is when the call arrives; its
   update stores, for title and for authors, the value of the model's answer when
   that is not empty and otherwise the value the call read, and the Document it
   returns is the stored one *)
C15_TitleAndAuthorsMerged ==
    [][\A c \in Calls :
          /\ (Arrives(c) /\ calls'[c].op = "analyze" /\ calls'[c].pc = "resolve"
                  => calls'[c].document = docs[calls'[c].docId])
          /\ (Updates(c) =>
                  LET i == calls[c].docId
                  IN  /\ docs'[i].title = Merged(calls[c].result.metadata.title,
                                                 calls[c].document.title)
                      /\ docs'[i].authors = Merged(calls[c].result.metadata.authors,
                                                   calls[c].document.authors)
                      /\ calls'[c].document = docs'[i])
      ]_vars

(* an Analyze answered with a title and with empty authors has succeeded: the
   Document has the model's title and the authors it had *)
C15_Witness ==
    \E c, k \in Calls :
        /\ Done(c, "upload") /\ calls[c].created = 1
        /\ Done(k, "analyze") /\ calls[k].status = 200
        /\ calls[k].docId = calls[c].docId
        /\ calls[k].analysis.metadata.publishedAt = "2021-13-45"
        /\ calls[k].after = {}
        /\ docs[calls[k].docId].title = "T-ai"
        /\ docs[calls[k].docId].authors = "A-text"

(* C16: two Analyze calls that failed in different ways (no copy of the file in
   either tier, the remote copy not read, the text not extracted, the model's
   analysis failed, the repository write failed) were not answered the same status
   and message *)
C16_FailureKindsDistinct ==
    \A c1, c2 \in Calls :
        /\ Done(c1, "analyze") /\ Done(c2, "analyze")
        /\ calls[c1].failure # "" /\ calls[c2].failure # ""
        /\ calls[c1].failure # calls[c2].failure
        => calls[c1].status # calls[c2].status \/ calls[c1].body # calls[c2].body

(* Analyze call c answers the analysis-service error in this step *)
AnalysisFails(c) == Answers(c, "analyze") /\ calls'[c].failure = "AnalysisServiceFailed"

(* C17, as the spec states it: an answer of the model whose insights are not a
   list is never persisted: no Analyze call goes on to its writes with such an
   answer, and no Document and no Extraction has the empty list as insights *)
C17_MalformedInsightsRejected ==
    /\ \A c \in Calls :
          calls[c].pc \in {"updating", "recording"} => IsArray(calls[c].result.insights)
    /\ \A i \in 1..Len(docs) : docs[i].insights # EmptyList
    /\ \A j \in 1..Len(extractions) : extractions[j].insights # EmptyList

(* C17, amended: when the model's answer is JSON whose insights are absent or not
   a list, Analyze goes on and stores the empty list as the insights of the
   Document and of the Extraction; an absent summary is stored as the placeholder
   string; the analysis-service error, which persists nothing, is answered only
   when analyzeDocument throws *)
C17_MalformedInsightsStoredEmpty ==
    [][\A c \in Calls :
          /\ (Updates(c) =>
                  LET i == calls[c].docId
                      result == calls[c].result
                  IN  /\ docs'[i].insights = IF IsArray(result.insights)
                                             THEN result.insights ELSE EmptyList
                      /\ docs'[i].summary = IF result.summary # 0
                                            THEN result.summary ELSE NoSummaryAvailable)
          /\ (Records(c) =>
                  LET result == calls[c].result
                      e == extractions'[Len(extractions')]
                  IN  /\ e.insights = IF IsArray(result.insights)
                                      THEN result.insights ELSE EmptyList
                      /\ e.summary = IF result.summary # 0
                                     THEN result.summary ELSE NoSummaryAvailable)
          /\ (AnalysisFails(c) =>
                  /\ calls[c].pc = "extracting"
                  /\ docs' = docs /\ extractions' = extractions)
      ]_vars

(* an Analyze answered {} has succeeded and its empty list of insights and its
   placeholder summary are in the Document and in an Extraction *)
C17_Witness ==
    \E c \in Calls :
        /\ Done(c, "analyze") /\ calls[c].status = 200
        /\ calls[c].analysis.insights = EmptyList
        /\ calls[c].analysis.summary = NoSummaryAvailable
        /\ docs[calls[c].docId].insights = EmptyList
        /\ docs[calls[c].docId].summary = NoSummaryAvailable
        /\ \E j \in ExtractionsOf(calls[c].docId) : extractions[j].insights = EmptyList

(* the file of an Upload request is not a PDF, or is larger than 10 MiB *)
BadFile(file) ==
    file # NoFile /\ (file.mimetype # "application/pdf" \/ file.size > 10 * 1024 * 1024)

(* C18: an Upload whose file is not declared a PDF, or is larger than 10 MiB (one
   byte larger included), is answered an error at once: it creates no Document,
   puts nothing to the object store and leaves no file in the uploads directory,
   and it does nothing after its answer *)
C18_BadUploadRejected ==
    [][\A c \in Calls :
          /\ (Arrives(c) /\ calls'[c].op = "upload" /\ BadFile(calls'[c].file)
                  => /\ calls'[c].pc = "done" /\ calls'[c].status >= 400
                     /\ calls'[c].created = 0 /\ calls'[c].docId = 0
                     /\ calls'[c].put = ""
                     /\ docs' = docs /\ objects' = objects /\ files' = files)
          /\ (calls[c].pc = "done" => calls'[c] = calls[c])
      ]_vars

(* an Upload of a PDF of 10 MiB and one byte was answered an error, and there is
   no Document, no object and no file *)
C18_Witness ==
    \E c \in Calls :
        /\ Done(c, "upload") /\ calls[c].file.mimetype = "application/pdf"
        /\ calls[c].file.size = 10 * 1024 * 1024 + 1
        /\ calls[c].status >= 400
        /\ docs = <<>> /\ objects = <<>> /\ files = <<>>

(* the Analyze or Download request c arrives in this step, for a document that
   does not exist or is not the requester's *)
ArrivesDenied(c) ==
    /\ Arrives(c) /\ calls'[c].op \in {"analyze", "download"}
    /\ \/ calls'[c].docId \notin 1..Len(docs)
       \/ docs[calls'[c].docId].userId # calls'[c].user

(* C19: the step in which Analyze or Download looks the Document up and checks
   its owner reads no file, calls neither the object store nor the extractor nor
   the model and creates no temporary file; a request for a document that does
   not exist or is another user's is answered in that step, changes no Document,
   Extraction, object or file, and does nothing after its answer *)
C19_ChecksBeforeAnyWork ==
    [][\A c \in Calls :
          /\ (Arrives(c) /\ calls'[c].op \in {"analyze", "download"}
                  => /\ calls'[c].get = "" /\ calls'[c].buf = 0
                     /\ calls'[c].tempFilePath = NoPath
                     /\ calls'[c].analysis = NoAnalysis
                     /\ UNCHANGED <<files, docs, objects, extractions>>)
          /\ (ArrivesDenied(c)
                  => /\ calls'[c].pc = "done" /\ calls'[c].status \in {403, 404})
          /\ (calls[c].pc = "done" => calls'[c] = calls[c])
      ]_vars

(* an Analyze of another user's Document and a Download of a document that does
   not exist have been answered *)
C19_Witness ==
    \E c, k \in Calls :
        /\ Done(c, "analyze") /\ calls[c].status = 403
        /\ Done(k, "download") /\ calls[k].status = 404
        /\ Len(docs) = 1 /\ extractions = <<>>

(* Analyze call c resolves where to read the file from in this step *)
Resolves(c) == calls[c].op = "analyze" /\ calls[c].pc = "resolve"
               /\ calls'[c] # calls[c]

(* C20: Analyze reads the file from the first place that has it.  A file at the
   Document's filePath is read as it is, with no temporary file and no get from
   the object store, in that step and later.  Else, when the Document has an
   objectStoragePath, a temporary path is taken, the object is fetched into it and
   the text is extracted from those bytes.  Else the call is answered an error in
   that step, with no analysis and nothing persisted *)
C20_AnalyzeResolution ==
    [][\A c \in Calls :
          /\ (Resolves(c) =>
                  LET document == calls[c].document
                  IN  IF existsSync(files, document.filePath)
                      THEN /\ calls'[c].pc = "extracting"
                           /\ calls'[c].buf = files[document.filePath]
                           /\ calls'[c].tempFilePath = NoPath /\ calls'[c].get = ""
                           /\ files' = files
                      ELSE IF document.objectStoragePath # NoKey
                      THEN /\ calls'[c].pc = "getting"
                           /\ calls'[c].tempFilePath # NoPath
                           /\ calls'[c].tempFilePath[1] = "temp"
                      ELSE /\ calls'[c].pc = "done" /\ calls'[c].status = 500
                           /\ calls'[c].analysis = NoAnalysis
                           /\ docs' = docs /\ extractions' = extractions
                           /\ files' = files)
          /\ (calls[c].op = "analyze" /\ ~Resolves(c)
                  => calls'[c].tempFilePath = calls[c].tempFilePath)
          /\ (calls'[c].op = "analyze" /\ calls'[c].get # ""
                  => calls'[c].tempFilePath # NoPath)
          /\ (calls[c].op = "analyze" /\ calls[c].pc = "streaming"
               /\ calls'[c].pc = "extracting"
                  => /\ calls'[c].buf =
                          objects[PathParts(calls[c].document.objectStoragePath)]
                     /\ files'[calls[c].tempFilePath] = calls'[c].buf)
      ]_vars

(* an Analyze of a Document whose Upload promoted it and deleted the local file
   has fetched the object and succeeded *)
C20_Witness ==
    \E c, k \in Calls :
        /\ Done(c, "upload") /\ calls[c].promoted
        /\ Done(k, "analyze") /\ calls[k].docId = calls[c].docId
        /\ calls[k].status = 200 /\ calls[k].get = "ok"
        /\ calls[k].tempFilePath # NoPath
        /\ ~existsSync(files, docs[calls[c].docId].filePath)

(* C21: the Extractions only grow: every step leaves the existing records as they
   are, in their order; and every Document has as many Extractions as Analyze
   calls of it have answered success *)
C21_ExtractionsAppendOnly ==
    /\ [][/\ Len(extractions') >= Len(extractions)
          /\ SubSeq(extractions', 1, Len(extractions)) = extractions]_vars
    /\ [](\A i \in 1..Len(docs) :
              Cardinality(ExtractionsOf(i)) = Cardinality(Succeeded(i)))

(* a Document has two Extractions after two Analyze calls, and the older one is
   still the first call's *)
C21_Witness ==
    \E i \in 1..Len(docs) : \E c1, c2 \in Calls :
        /\ InSequence(c1, c2, i)
        /\ Cardinality(ExtractionsOf(i)) = 2
        /\ \E j \in ExtractionsOf(i) :
              /\ extractions[j].summary = calls[c1].analysis.summary
              /\ j # Len(extractions)

(* Analyze call c has taken a temporary path and has not answered *)
Staging(c) == calls[c].op = "analyze" /\ calls[c].pc # "done"
              /\ calls[c].tempFilePath # NoPath

(* C22: two Analyze calls that are staging from the object store at the same time
   have different temporary paths *)
C22_TempPathsDistinct ==
    \A c1, c2 \in Calls :
        c1 # c2 /\ Staging(c1) /\ Staging(c2)
            => calls[c1].tempFilePath # calls[c2].tempFilePath

(* C23: no two Uploads are given the same staged path, and no two Documents have
   the same filePath *)
C23_StagedPathsDistinct ==
    /\ \A c1, c2 \in Calls :
          /\ c1 # c2 /\ calls[c1].op = "upload" /\ calls[c2].op = "upload"
          /\ calls[c1].finalPath # NoPath /\ calls[c2].finalPath # NoPath
          => calls[c1].finalPath # calls[c2].finalPath
    /\ \A i, j \in 1..Len(docs) : i # j => docs[i].filePath # docs[j].filePath

(* the fields of a Document that Analyze writes *)
Analyzed(document) ==
    <<document.title, document.authors, document.publishedAt, document.summary,
      document.insights>>

(* C24: the fields of a Document that Analyze writes change only in the update
   step of an Analyze call, and the Extractions only in its recording step; a call
   comes to these steps only from the step in which pdf-parse and the model have
   both answered, with the analysis in hand; a call that fails before has written
   nothing and writes nothing when it answers *)
C24_PersistenceAfterAnalysis ==
    [][/\ \A i \in 1..Len(docs) :
             Analyzed(docs'[i]) # Analyzed(docs[i])
                 => \E c \in Calls : Updates(c) /\ calls[c].docId = i
       /\ extractions' # extractions => \E c \in Calls : Records(c)
       /\ \A c \in Calls :
             /\ (/\ calls'[c].op = "analyze"
                  /\ calls'[c].pc = "updating" /\ calls[c].pc # "updating"
                     => /\ calls[c].op = "analyze" /\ calls[c].pc = "extracting"
                        /\ calls'[c].result # NoResult
                        /\ calls'[c].analysis # NoAnalysis
                        /\ calls'[c].analysis.summary # 0
                        /\ calls'[c].analysis.insights # 0)
             /\ (calls'[c].pc = "recording" /\ calls[c].pc # "recording"
                     => Updates(c))
             /\ (/\ Answers(c, "analyze")
                  /\ calls'[c].failure \in {"ContentUnavailable", "RemoteReadFailed",
                         "ExtractionFailed", "AnalysisServiceFailed"}
                     => /\ calls[c].pc \in {"resolve", "getting", "streaming",
                                             "extracting"}
                        /\ calls[c].analysis = NoAnalysis
                        /\ docs' = docs /\ extractions' = extractions)
      ]_vars

(* one Analyze failed at pdf-parse and one at the model, and the Document is as
   Upload created it, with no Extraction *)
C24_Witness ==
    \E c1, c2 \in Calls :
        /\ Done(c1, "analyze") /\ calls[c1].failure = "ExtractionFailed"
        /\ Done(c2, "analyze") /\ calls[c2].failure = "AnalysisServiceFailed"
        /\ calls[c1].docId = calls[c2].docId
        /\ docs[calls[c1].docId].summary = 0 /\ docs[calls[c1].docId].insights = 0
        /\ docs[calls[c1].docId].title = "T-info"
        /\ extractions = <<>>

(* C25: when Upload answers success, the Document in the answer is the stored
   one, and it has an objectStoragePath exactly when the promotion succeeded *)
C25_ReturnedDocumentIsStored ==
    [][\A c \in Calls :
          Answers(c, "upload") /\ calls'[c].status = 201
              => /\ calls'[c].document = docs'[calls'[c].docId]
                 /\ (calls'[c].document.objectStoragePath # NoKey
                        <=> calls'[c].promoted)]_vars

(* C26: when an Analyze call that staged a temporary file and extracted its text
   answers a failure of the model's analysis, of the Document update or of the
   Extraction creation, no file is at its temporary path *)
C26_TempFileDeletedOnLateFailure ==
    [][\A c \in Calls :
          /\ Answers(c, "analyze") /\ calls[c].tempFilePath # NoPath
          /\ calls[c].pc \in {"extracting", "updating", "recording"}
          /\ calls'[c].failure \in {"AnalysisServiceFailed", "PersistenceFailed"}
          => /\ calls'[c].status = 500
             /\ ~existsSync(files', calls[c].tempFilePath)]_vars

(* a call that staged a temporary file has answered the failure of the Extraction
   creation, after its Document update; its temporary file is gone *)
C26_Witness ==
    \E c \in Calls :
        /\ Done(c, "analyze") /\ calls[c].get = "ok"
        /\ calls[c].tempFilePath # NoPath
        /\ calls[c].failure = "PersistenceFailed"
        /\ docs[calls[c].docId].summary # 0
        /\ ~existsSync(files, calls[c].tempFilePath)

(* C27: Analyze persists all or nothing.  When the only Analyze call of a Document
   answers an error, the Document's title, authors, date, summary and insights are
   those its Upload stored and it has no Extraction: a failure of the Extraction
   creation leaves no Document update behind *)
C27_AnalyzeAllOrNothing ==
    [][\A c \in Calls :
          /\ Answers(c, "analyze") /\ calls'[c].status # 200
          /\ AnalyzersOf(calls[c].docId) = {c}
          => /\ Analyzed(docs'[calls[c].docId]) =
                    Analyzed(calls[OriginalBytes(calls[c].docId)].document)
             /\ ExtractionsOf(calls[c].docId) = {}
             /\ extractions' = extractions]_vars

(* C28: an Analyze call never fails for lack of content while a tier holds the
   Document's bytes: when a call is answered that no content could be found, the
   Document's local file is absent and the object store has no object of it, also
   when the Upload's promotion ran between the call's arrival and that answer *)
C28_AnalyzeFindsContentDuringPromotion ==
    [][\A c \in Calls :
          Answers(c, "analyze") /\ calls'[c].failure = "ContentUnavailable"
              => /\ ~existsSync(files, docs[calls[c].docId].filePath)
                 /\ ~ObjectExists(docs[calls[c].docId])]_vars

(* C29: under concurrent Analyze calls of a Document, the update of a call whose
   answer is empty for title or authors, or has no valid date, leaves that field
   at the value stored when the update is written; it does not put back the value
   the call read when it arrived *)
C29_EmptyFieldKeepsStoredValue ==
    [][\A c \in Calls :
          Updates(c) =>
              LET i == calls[c].docId
                  metadata == calls[c].result.metadata
              IN  /\ metadata.title \in {Null, ""} => docs'[i].title = docs[i].title
                  /\ metadata.authors \in {Null, ""}
                        => docs'[i].authors = docs[i].authors
                  /\ NoValidDate(metadata.publishedAt)
                        => docs'[i].publishedAt = docs[i].publishedAt]_vars

(* C30: no object is orphaned by Upload: once an Upload whose put succeeded has
   answered, its Document's objectStoragePath names the object it wrote, also when
   the Document update or the deletion of the local file failed after the put *)
C30_NoOrphanObject ==
    \A c \in Calls :
        Done(c, "upload") /\ calls[c].put = "ok"
            => docs[calls[c].docId].objectStoragePath = calls[c].objectPath

====
